---- MODULE Spec2Model ----
(***************************************************************************)
(* A model of smartwalle/txcos: the scene and content-type registries, the *)
(* upload path builder, the credential policy builder and the presigned    *)
(* URL facade.                                                             *)
(*                                                                         *)
(* Strings are sequences of symbols.  "/" and "." are the two characters   *)
(* the path functions look at; every other symbol ("a", "pdf", "docs",     *)
(* ...) stands for a run of characters that holds neither.                 *)
(***************************************************************************)
EXTENDS Integers, Sequences, FiniteSets, TLC

VARIABLES scenes, contentTypes, last

vars == <<scenes, contentTypes, last>>

(***************************************************************************)
(* Bounds of the model.                                                    *)
(***************************************************************************)
MaxPathLen == 5
MaxResources == 3
TicksPerSecond == 2
MaxExpired == 2

(***************************************************************************)
(* strings, path.Clean, filepath.Join, filepath.Ext, strings.TrimPrefix    *)
(***************************************************************************)
EmptyStr == <<>>

RECURSIVE JoinSep(_, _)
JoinSep(elem, sep) ==
    IF elem = <<>> THEN <<>>
    ELSE IF Len(elem) = 1 THEN elem[1]
    ELSE elem[1] \o sep \o JoinSep(Tail(elem), sep)

\* the dot-dot case of path.Clean: out.w after backing up over the last element;
\* buf[w + 1] is out.index(w)
RECURSIVE Backtrack(_, _, _)
Backtrack(buf, w, dotdot) ==
    IF w > dotdot /\ buf[w + 1] # "/" THEN Backtrack(buf, w - 1, dotdot) ELSE w

\* end of the element that starts at r: the first index >= r holding "/", or n+1
RECURSIVE ElemEnd(_, _)
ElemEnd(path, r) ==
    IF r <= Len(path) /\ path[r] # "/" THEN ElemEnd(path, r + 1) ELSE r

\* the loop of path.Clean; r is 1-based, Len(out) is out.w
RECURSIVE CleanLoop(_, _, _, _, _)
CleanLoop(path, rooted, r, out, dotdot) ==
    LET n == Len(path) IN
    IF r > n THEN out
    ELSE IF path[r] = "/" THEN CleanLoop(path, rooted, r + 1, out, dotdot)
    ELSE IF path[r] = "." /\ (r = n \/ path[r + 1] = "/")
         THEN CleanLoop(path, rooted, r + 1, out, dotdot)
    ELSE IF path[r] = "." /\ path[r + 1] = "." /\ (r + 1 = n \/ path[r + 2] = "/")
         THEN IF Len(out) > dotdot
              THEN CleanLoop(path, rooted, r + 2,
                             SubSeq(out, 1, Backtrack(out, Len(out) - 1, dotdot)),
                             dotdot)
              ELSE IF ~rooted
              THEN LET out2 == (IF Len(out) > 0 THEN out \o <<"/">> ELSE out)
                                   \o <<".", ".">>
                   IN  CleanLoop(path, rooted, r + 2, out2, Len(out2))
              ELSE CleanLoop(path, rooted, r + 2, out, dotdot)
    ELSE LET sep == IF (rooted /\ Len(out) # 1) \/ (~rooted /\ Len(out) # 0)
                    THEN <<"/">> ELSE <<>>
             e   == ElemEnd(path, r)
         IN  CleanLoop(path, rooted, e, out \o sep \o SubSeq(path, r, e - 1), dotdot)

Clean(path) ==
    IF path = <<>> THEN <<".">>
    ELSE LET rooted == path[1] = "/"
             out == IF rooted THEN CleanLoop(path, TRUE, 2, <<"/">>, 1)
                    ELSE CleanLoop(path, FALSE, 1, <<>>, 0)
         IN  IF out = <<>> THEN <<".">> ELSE out

RECURSIVE Join(_)
Join(elem) ==
    IF elem = <<>> THEN <<>>
    ELSE IF elem[1] # <<>> THEN Clean(JoinSep(elem, <<"/">>))
    ELSE Join(Tail(elem))

RECURSIVE ExtFrom(_, _)
ExtFrom(path, i) ==
    IF i < 1 \/ path[i] = "/" THEN <<>>
    ELSE IF path[i] = "." THEN SubSeq(path, i, Len(path))
    ELSE ExtFrom(path, i - 1)

Ext(path) == ExtFrom(path, Len(path))

TrimPrefix(s, prefix) ==
    IF Len(s) >= Len(prefix) /\ SubSeq(s, 1, Len(prefix)) = prefix
    THEN SubSeq(s, Len(prefix) + 1, Len(s))
    ELSE s

(***************************************************************************)
(* helper.go                                                               *)
(***************************************************************************)
TrimPrefixSlash(filePath) ==
    LET cleaned == Clean(filePath) IN
    IF cleaned # <<>> /\ cleaned[1] = "/" THEN Tail(cleaned) ELSE cleaned

(***************************************************************************)
(* Values the operations are called with.                                  *)
(***************************************************************************)
SceneTypes == {1, 2}

NilScene == [nil |-> TRUE]

ScenePaths == {<<>>, <<"docs">>}

ExtensionLists == {<<>>, << <<"pdf">> >>, << <<"pdf">>, <<"txt">> >>}

AttachmentLists == {<<>>, << <<"txt">> >>}

SceneArgs ==
    {NilScene} \cup [SceneType : SceneTypes, Path : ScenePaths,
                     Extensions : ExtensionLists, Attachments : AttachmentLists]

ApplicationPdf == <<"application", "/", "pdf">>

TextPlain == <<"text", "/", "plain">>

ContentTypeArgs ==
    { <<EmptyStr, ApplicationPdf>>, << <<"pdf">>, EmptyStr >>,
      << <<"pdf">>, ApplicationPdf >>, << <<"PDF">>, ApplicationPdf >>,
      << <<"txt">>, TextPlain >> }

Filenames ==
    { EmptyStr, <<"a">>, <<"a", ".">>, <<"a", ".", "pdf">>, <<"a", ".", "PDF">>,
      <<"a", ".", "txt">>, <<"a", ".", "exe">>, <<"d", ".", "pdf", "/", "a">> }

PathsArgs == { <<>>, << <<"x">> >> }

\* uuid.New().String() and time.Now().UnixNano(), as the caller cannot choose them
Uuids == {"u1", "u2"}

Nanos == {"1700000000000000000"}

(***************************************************************************)
(* errors (nil is NoErr)                                                   *)
(***************************************************************************)
NoErr == "nil"

ErrEmptyFilename == "ErrEmptyFilename"

ErrEmptyFileExt == "ErrEmptyFileExt"

ErrSceneNotFound == "ErrSceneNotFound"

ErrUnsupportedExt == "ErrUnsupportedExt"

ErrUnknownContentType == "ErrUnknownContentType"

(***************************************************************************)
(* Client: the registries                                                  *)
(***************************************************************************)
\* c.contentTypes[fileExt]: the zero value "" for a missing key
ContentType(cts, fileExt) ==
    IF fileExt \in DOMAIN cts THEN cts[fileExt] ELSE EmptyStr

RegisterSceneGuardNoPath(scene) ==
    scene # NilScene /\ Len(scene.Extensions) > 0

RegisterSceneGuard(scene) ==
    scene # NilScene /\ scene.Path # EmptyStr /\ Len(scene.Extensions) > 0

\* the map after c.scenes[key] = value
MapSet(m, key, value) ==
    [k \in DOMAIN m \cup {key} |-> IF k = key THEN value ELSE m[k]]

RegisterSceneMap(sc, scene) ==
    IF RegisterSceneGuard(scene) THEN MapSet(sc, scene.SceneType, scene) ELSE sc

AllowContentTypeMap(cts, fileExt, contentType) ==
    IF fileExt # EmptyStr /\ contentType # EmptyStr
    THEN MapSet(cts, fileExt, contentType)
    ELSE cts

(***************************************************************************)
(* Client.BuildUploadFileInfo                                              *)
(***************************************************************************)
SupportExt(scene, fileExt) ==
    \E i \in 1..Len(scene.Extensions) : fileExt = scene.Extensions[i]

AttachmentOfExtensions(scene, fileExt) ==
    \E i \in 1..Len(scene.Extensions) : fileExt = scene.Extensions[i]

Attachment(scene, fileExt) ==
    \E i \in 1..Len(scene.Attachments) : fileExt = scene.Attachments[i]

\* base64.URLEncoding.EncodeToString([]byte(uuid + filename)): a run of
\* characters of the URL-safe alphabet, one symbol per (uuid, filename)
EncodedToken(uuid, filename) == <<"b64", uuid, "+">> \o
    [i \in 1..Len(filename) |-> IF filename[i] = "/" THEN "Lw"
                                ELSE IF filename[i] = "." THEN "Lg"
                                ELSE filename[i]]

\* fmt.Sprintf("%s_%d.%s", token, nanos, fileExt)
UniqueName(uuid, filename, nanos, fileExt) ==
    EncodedToken(uuid, filename) \o <<"_", nanos, ".">> \o fileExt

BuildResult(filePath, contentType, attachment, err) ==
    [filePath |-> filePath, contentType |-> contentType,
     attachment |-> attachment, err |-> err]

BuildUploadFileInfoContentTypeFirst(sc, cts, sceneType, filename, paths, uuid, nanos) ==
    LET dotExt  == Ext(filename)
        fileExt == TrimPrefix(dotExt, <<".">>)
    IN
    IF filename = EmptyStr THEN BuildResult(EmptyStr, EmptyStr, FALSE, ErrEmptyFilename)
    ELSE IF dotExt = EmptyStr
         THEN BuildResult(EmptyStr, EmptyStr, FALSE, ErrEmptyFileExt)
    ELSE IF ContentType(cts, fileExt) = EmptyStr
         THEN BuildResult(EmptyStr, EmptyStr, FALSE, ErrUnknownContentType)
    ELSE IF sceneType \notin DOMAIN sc
         THEN BuildResult(EmptyStr, EmptyStr, FALSE, ErrSceneNotFound)
    ELSE
    LET scene       == sc[sceneType]
        attachment  == Attachment(scene, fileExt)
        contentType == ContentType(cts, fileExt)
        newPaths    == << <<"/">>, scene.Path >> \o paths
                           \o << UniqueName(uuid, filename, nanos, fileExt) >>
    IN
    IF ~SupportExt(scene, fileExt)
    THEN BuildResult(EmptyStr, EmptyStr, FALSE, ErrUnsupportedExt)
    ELSE BuildResult(TrimPrefixSlash(Join(newPaths)), contentType, attachment, NoErr)

BuildUploadFileInfo(sc, cts, sceneType, filename, paths, uuid, nanos) ==
    LET dotExt  == Ext(filename)
        fileExt == TrimPrefix(dotExt, <<".">>)
    IN
    IF filename = EmptyStr THEN BuildResult(EmptyStr, EmptyStr, FALSE, ErrEmptyFilename)
    ELSE IF dotExt = EmptyStr
         THEN BuildResult(EmptyStr, EmptyStr, FALSE, ErrEmptyFileExt)
    ELSE IF sceneType \notin DOMAIN sc
         THEN BuildResult(EmptyStr, EmptyStr, FALSE, ErrSceneNotFound)
    ELSE
    LET scene       == sc[sceneType]
        attachment  == Attachment(scene, fileExt)
        contentType == ContentType(cts, fileExt)
        newPaths    == << <<"/">>, scene.Path >> \o paths
                           \o << UniqueName(uuid, filename, nanos, fileExt) >>
    IN
    IF ~SupportExt(scene, fileExt)
    THEN BuildResult(EmptyStr, EmptyStr, FALSE, ErrUnsupportedExt)
    ELSE IF contentType = EmptyStr
    THEN BuildResult(EmptyStr, EmptyStr, attachment, ErrUnknownContentType)
    ELSE BuildResult(TrimPrefixSlash(Join(newPaths)), contentType, attachment, NoErr)

(***************************************************************************)
(* The registry and the path builder as a state machine.                   *)
(***************************************************************************)
EmptyMap == << >>

Idle == [op |-> "New"]

Init ==
    /\ scenes = EmptyMap
    /\ contentTypes = EmptyMap
    /\ last = Idle

RegisterScene(scene) ==
    /\ scenes' = RegisterSceneMap(scenes, scene)
    /\ last' = [op |-> "RegisterScene", scene |-> scene]
    /\ UNCHANGED contentTypes

AllowContentType(fileExt, contentType) ==
    /\ contentTypes' = AllowContentTypeMap(contentTypes, fileExt, contentType)
    /\ last' = [op |-> "AllowContentType", fileExt |-> fileExt,
                contentType |-> contentType]
    /\ UNCHANGED scenes

CallBuildUploadFileInfo(sceneType, filename, paths, uuid, nanos) ==
    /\ last' = [op |-> "BuildUploadFileInfo", sceneType |-> sceneType,
                filename |-> filename, paths |-> paths, uuid |-> uuid, nanos |-> nanos,
                ret |-> BuildUploadFileInfo(scenes, contentTypes, sceneType, filename,
                                            paths, uuid, nanos)]
    /\ UNCHANGED <<scenes, contentTypes>>

Next ==
    \/ \E scene \in SceneArgs : RegisterScene(scene)
    \/ \E a \in ContentTypeArgs : AllowContentType(a[1], a[2])
    \/ \E sceneType \in SceneTypes, filename \in Filenames, paths \in PathsArgs,
          uuid \in Uuids, nanos \in Nanos :
          CallBuildUploadFileInfo(sceneType, filename, paths, uuid, nanos)

Spec == Init /\ [][Next]_vars

(***************************************************************************)
(* TrimPrefixSlash over every path of at most MaxPathLen characters.       *)
(***************************************************************************)
PathChars == {"/", ".", "a"}

Paths == UNION { [1..n -> PathChars] : n \in 0..MaxPathLen }

CallTrimPrefixSlash(filePath) ==
    /\ last' = [op |-> "TrimPrefixSlash", filePath |-> filePath,
                ret |-> TrimPrefixSlash(filePath)]
    /\ UNCHANGED <<scenes, contentTypes>>

NextPath == \E filePath \in Paths : CallTrimPrefixSlash(filePath)

SpecPath == Init /\ [][NextPath]_vars

(***************************************************************************)
(* Client: what New(secretID, secretKey, appID, bucket, region) stores      *)
(***************************************************************************)
Region == <<"ap-guangzhou">>

AppID == <<"1250000000">>

\* fmt.Sprintf("%s-%s", bucket, appID)
BucketName == <<"bucket", "-">> \o AppID

(***************************************************************************)
(* Client.GetUploadCredentialPolicyStatement,                              *)
(* Client.GetViewCredentialPolicyStatement                                 *)
(***************************************************************************)
ErrEmptyResources == "ErrEmptyResources"

ErrEmptyContentTypes == "ErrEmptyContentTypes"

\* fmt.Sprintf("qcs::cos:%s:uid/%s:%s", c.region, c.appID, c.bucketName)
PolicyBase == <<"qcs::cos:">> \o Region \o <<":uid", "/">> \o AppID \o <<":">>
                  \o BucketName

RECURSIVE ResourceListSkipEmpty(_, _)
ResourceListSkipEmpty(base, resources) ==
    IF resources = <<>> THEN <<>>
    ELSE IF Head(resources) = EmptyStr THEN ResourceListSkipEmpty(base, Tail(resources))
    ELSE <<Join(<<base, Head(resources)>>)>>
             \o ResourceListSkipEmpty(base, Tail(resources))

\* the loop that appends filepath.Join(base, resource) for each resource
RECURSIVE ResourceList(_, _)
ResourceList(base, resources) ==
    IF resources = <<>> THEN <<>>
    ELSE <<Join(<<base, Head(resources)>>)>> \o ResourceList(base, Tail(resources))

UploadActionsWithGet ==
    <<"name/cos:PutObject", "name/cos:PostObject", "name/cos:GetObject">>

UploadActions ==
    <<"name/cos:PutObject", "name/cos:PostObject", "name/cos:InitiateMultipartUpload",
      "name/cos:ListMultipartUploads", "name/cos:ListParts", "name/cos:UploadPart",
      "name/cos:CompleteMultipartUpload", "name/cos:AbortMultipartUpload">>

ViewActions == <<"name/cos:GetObject">>

\* a nil Condition map is the empty map
GetUploadCredentialPolicyStatement(resources, cts) ==
    IF Len(resources) < 1 THEN [statements |-> <<>>, err |-> ErrEmptyResources]
    ELSE IF Len(cts) < 1 THEN [statements |-> <<>>, err |-> ErrEmptyContentTypes]
    ELSE [statements |->
              << [Action |-> UploadActions,
                  Effect |-> "allow",
                  Resource |-> ResourceList(PolicyBase, resources),
                  Condition |-> ("string_equal_ignore_case" :>
                                     ("cos:content-type" :> cts))] >>,
          err |-> NoErr]

GetViewCredentialPolicyStatement(resources) ==
    IF Len(resources) < 1 THEN [statements |-> <<>>, err |-> ErrEmptyResources]
    ELSE [statements |->
              << [Action |-> ViewActions,
                  Effect |-> "allow",
                  Resource |-> ResourceList(PolicyBase, resources),
                  Condition |-> EmptyMap] >>,
          err |-> NoErr]

(***************************************************************************)
(* The policy builder over bounded resource and content-type lists.        *)
(***************************************************************************)
ResourceArgs ==
    { EmptyStr, <<"docs", "/", "a", ".", "pdf">>, <<".", ".", "/", "x">>, <<"/", "b">> }

ResourceLists == UNION { [1..n -> ResourceArgs] : n \in 0..MaxResources }

ContentTypeLists ==
    { <<>>, <<ApplicationPdf>>, <<TextPlain, ApplicationPdf>> }

CallGetUploadCredentialPolicyStatement(resources, cts) ==
    /\ last' = [op |-> "GetUploadCredentialPolicyStatement", resources |-> resources,
                contentTypes |-> cts,
                ret |-> GetUploadCredentialPolicyStatement(resources, cts)]
    /\ UNCHANGED <<scenes, contentTypes>>

CallGetViewCredentialPolicyStatement(resources) ==
    /\ last' = [op |-> "GetViewCredentialPolicyStatement", resources |-> resources,
                ret |-> GetViewCredentialPolicyStatement(resources)]
    /\ UNCHANGED <<scenes, contentTypes>>

NextPolicy ==
    \/ \E resources \in ResourceLists, cts \in ContentTypeLists :
           CallGetUploadCredentialPolicyStatement(resources, cts)
    \/ \E resources \in ResourceLists : CallGetViewCredentialPolicyStatement(resources)

SpecPolicy == Init /\ [][NextPolicy]_vars

(***************************************************************************)
(* The collaborators: sts.Client.GetCredential and                         *)
(* cos.ObjectService.GetPresignedURL.  What they answer is an input of the *)
(* call; what they were asked is kept in the call's log.                   *)
(***************************************************************************)
\* GetCredential: an error, a nil credential (or nil Credentials), a credential
StsOutcomes == {"error", "nil", "ok"}

SignOutcomes == {"error", "ok"}

ErrSts == "ErrSts"

ErrNilCredentials == "ErrNilCredentials"

ErrSign == "ErrSign"

ErrEmptyPath == "ErrEmptyPath"

NilCredentials == [nil |-> TRUE]

NilInfo == [nil |-> TRUE]

NilParam == [nil |-> TRUE]

TmpCredentials ==
    [TmpSecretID |-> "tmpSecretID", TmpSecretKey |-> "tmpSecretKey",
     SessionToken |-> <<"sessionToken">>]

SecretID == "secretID"

SecretKey == "secretKey"

\* a time.Duration counts ticks, TicksPerSecond of them to the second;
\* int64(expired.Seconds()) truncates toward zero
DurationSeconds(expired) ==
    IF expired >= 0 THEN expired \div TicksPerSecond
    ELSE -((-expired) \div TicksPerSecond)

Hour == 3600 * TicksPerSecond

\* http.Header and url.Values: key -> list of values
ValuesAdd(h, key, value) ==
    IF key \in DOMAIN h THEN [h EXCEPT ![key] = Append(@, value)]
    ELSE MapSet(h, key, <<value>>)

ValuesSet(h, key, value) == MapSet(h, key, <<value>>)

ValuesGet(h, key) ==
    IF key \in DOMAIN h /\ h[key] # <<>> THEN h[key][1] ELSE EmptyStr

\* for key := range *opts.Header { presignedInfo.Header[key] = opts.Header.Get(key) }
HeaderMap(h) == [key \in DOMAIN h |-> ValuesGet(h, key)]

GetCredentialCall(statements, expired, outcome) ==
    [call |-> "GetCredential", DurationSeconds |-> DurationSeconds(expired),
     Region |-> Region, Statement |-> statements, outcome |-> outcome]

GetPresignedURLCall(method, name, ak, sk, expired, header, query, outcome) ==
    [call |-> "GetPresignedURL", method |-> method, name |-> name, ak |-> ak,
     sk |-> sk, expired |-> expired, header |-> header, query |-> query,
     outcome |-> outcome]

\* presignedURL.String(): the URL is what the signer made of the request
PresignedURL(signCall) == <<"url">> \o signCall.name

CredentialsResult(credentials, err, log) ==
    [credentials |-> credentials, err |-> err, log |-> log]

(***************************************************************************)
(* Client.GetTmpUploadCredentials, Client.GetTmpViewCredentials            *)
(***************************************************************************)
IssueCredentials(policy, expired, sts) ==
    IF policy.err # NoErr THEN CredentialsResult(NilCredentials, policy.err, <<>>)
    ELSE LET log == <<GetCredentialCall(policy.statements, expired, sts)>> IN
         IF sts = "error" THEN CredentialsResult(NilCredentials, ErrSts, log)
         ELSE IF sts = "nil" THEN CredentialsResult(NilCredentials, ErrNilCredentials, log)
         ELSE CredentialsResult(TmpCredentials, NoErr, log)

GetTmpUploadCredentialsNoNilCheck(resources, cts, expired, sts) ==
    LET issued == IssueCredentials(GetUploadCredentialPolicyStatement(resources, cts),
                                   expired, sts)
    IN  IF issued.err = ErrNilCredentials
        THEN CredentialsResult([TmpSecretID |-> "", TmpSecretKey |-> "",
                                SessionToken |-> EmptyStr], NoErr, issued.log)
        ELSE issued

GetTmpUploadCredentials(resources, cts, expired, sts) ==
    IssueCredentials(GetUploadCredentialPolicyStatement(resources, cts), expired, sts)

GetTmpViewCredentials(resources, expired, sts) ==
    IssueCredentials(GetViewCredentialPolicyStatement(resources), expired, sts)

(***************************************************************************)
(* Client.GetUploadPresignedInfo, Client.GetTmpUploadPresignedInfo         *)
(***************************************************************************)
\* the declaration of DispositionType is not among the sources; the value that
\* is not DispositionTypeAttachment stands for every other one
DispositionTypeAttachment == "DispositionTypeAttachment"

DispositionTypeOther == "DispositionTypeOther"

DispositionTypes == {DispositionTypeAttachment, DispositionTypeOther}

\* fmt.Sprintf("attachment; filename=%s", filename)
ContentDisposition(filename) == <<"attachment; filename=">> \o filename

UploadHeader(attachment, dispositionType, filename, contentType) ==
    LET disposition ==
            IF attachment \/ dispositionType = DispositionTypeAttachment
            THEN ValuesAdd(EmptyMap, "Content-Disposition", ContentDisposition(filename))
            ELSE EmptyMap
    IN  ValuesAdd(disposition, "Content-Type", contentType)

BuildCall(build) == [call |-> "BuildUploadFileInfo", ret |-> build]

PresignResult(info, err, log) == [info |-> info, err |-> err, log |-> log]

PresignedInfo(signCall, filePath, header) ==
    [UploadURL |-> PresignedURL(signCall), FilePath |-> filePath,
     Header |-> HeaderMap(header)]

GetTmpUploadPresignedInfo(sc, cts, sceneType, dispositionType, filename, expired, paths, uuid, nanos, sts, sign) ==
    LET build == BuildUploadFileInfo(sc, cts, sceneType, filename, paths, uuid, nanos)
        cred  == GetTmpUploadCredentials(<<build.filePath>>, <<build.contentType>>,
                                         expired, sts)
        header == UploadHeader(build.attachment, dispositionType, filename,
                               build.contentType)
        query == ValuesAdd(EmptyMap, "x-cos-security-token",
                           cred.credentials.SessionToken)
        signCall == GetPresignedURLCall("PUT", build.filePath,
                                        cred.credentials.TmpSecretID,
                                        cred.credentials.TmpSecretKey,
                                        expired, header, query, sign)
    IN
    IF build.err # NoErr THEN PresignResult(NilInfo, build.err, <<BuildCall(build)>>)
    ELSE IF cred.err # NoErr
         THEN PresignResult(NilInfo, cred.err, <<BuildCall(build)>> \o cred.log)
    ELSE IF sign = "error"
         THEN PresignResult(NilInfo, ErrSign,
                            <<BuildCall(build)>> \o cred.log \o <<signCall>>)
    ELSE PresignResult(PresignedInfo(signCall, build.filePath, header), NoErr,
                       <<BuildCall(build)>> \o cred.log \o <<signCall>>)

\* a slip that leaves the scene's attachment flag out of the header rule
GetUploadPresignedInfoFlagIgnored(sc, cts, sceneType, dispositionType, filename, expired, paths, uuid, nanos, sign) ==
    LET build == BuildUploadFileInfo(sc, cts, sceneType, filename, paths, uuid, nanos)
        header == UploadHeader(FALSE, dispositionType, filename, build.contentType)
        signCall == GetPresignedURLCall("PUT", build.filePath, SecretID, SecretKey,
                                        expired, header, EmptyMap, sign)
    IN
    IF build.err # NoErr THEN PresignResult(NilInfo, build.err, <<BuildCall(build)>>)
    ELSE IF sign = "error"
         THEN PresignResult(NilInfo, ErrSign, <<BuildCall(build)>> \o <<signCall>>)
    ELSE PresignResult(PresignedInfo(signCall, build.filePath, header), NoErr,
                       <<BuildCall(build)>> \o <<signCall>>)

GetUploadPresignedInfo(sc, cts, sceneType, dispositionType, filename, expired, paths, uuid, nanos, sign) ==
    LET build == BuildUploadFileInfo(sc, cts, sceneType, filename, paths, uuid, nanos)
        header == UploadHeader(build.attachment, dispositionType, filename,
                               build.contentType)
        signCall == GetPresignedURLCall("PUT", build.filePath, SecretID, SecretKey,
                                        expired, header, EmptyMap, sign)
    IN
    IF build.err # NoErr THEN PresignResult(NilInfo, build.err, <<BuildCall(build)>>)
    ELSE IF sign = "error"
         THEN PresignResult(NilInfo, ErrSign, <<BuildCall(build)>> \o <<signCall>>)
    ELSE PresignResult(PresignedInfo(signCall, build.filePath, header), NoErr,
                       <<BuildCall(build)>> \o <<signCall>>)

(***************************************************************************)
(* cos.go: the client that always signs with a temporary credential.  Its  *)
(* Scene has FileExts where the other has Extensions, and no Attachments;  *)
(* its registries are filled by the same RegisterScene and                 *)
(* AllowContentType, so it is modelled over the same two maps.             *)
(***************************************************************************)
CosGo_BuildResult(filePath, contentType, err) ==
    [filePath |-> filePath, contentType |-> contentType, err |-> err]

CosGo_BuildUploadFileInfo(sc, cts, sceneType, filename, paths, uuid, nanos) ==
    LET dotExt  == Ext(filename)
        fileExt == TrimPrefix(dotExt, <<".">>)
    IN
    IF filename = EmptyStr THEN CosGo_BuildResult(EmptyStr, EmptyStr, ErrEmptyFilename)
    ELSE IF dotExt = EmptyStr
         THEN CosGo_BuildResult(EmptyStr, EmptyStr, ErrEmptyFileExt)
    ELSE IF sceneType \notin DOMAIN sc
         THEN CosGo_BuildResult(EmptyStr, EmptyStr, ErrSceneNotFound)
    ELSE
    LET scene       == sc[sceneType]
        contentType == ContentType(cts, fileExt)
        newPaths    == << <<"/">>, scene.Path >> \o paths
                           \o << UniqueName(uuid, filename, nanos, fileExt) >>
    IN
    IF ~SupportExt(scene, fileExt)
    THEN CosGo_BuildResult(EmptyStr, EmptyStr, ErrUnsupportedExt)
    ELSE IF contentType = EmptyStr
    THEN CosGo_BuildResult(EmptyStr, EmptyStr, ErrUnknownContentType)
    ELSE CosGo_BuildResult(Join(newPaths), contentType, NoErr)

CosGo_GetUploadPresignedInfo(sc, cts, sceneType, filename, expired, paths, uuid, nanos, sts, sign) ==
    LET build == CosGo_BuildUploadFileInfo(sc, cts, sceneType, filename, paths,
                                           uuid, nanos)
        filePath == TrimPrefixSlash(build.filePath)
        cred  == GetTmpUploadCredentials(<<filePath>>, <<build.contentType>>,
                                         expired, sts)
        header == ValuesAdd(ValuesAdd(EmptyMap, "Content-Disposition",
                                      ContentDisposition(filename)),
                            "Content-Type", build.contentType)
        query == ValuesAdd(EmptyMap, "x-cos-security-token",
                           cred.credentials.SessionToken)
        signCall == GetPresignedURLCall("PUT", filePath,
                                        cred.credentials.TmpSecretID,
                                        cred.credentials.TmpSecretKey,
                                        expired, header, query, sign)
    IN
    IF build.err # NoErr THEN PresignResult(NilInfo, build.err, <<BuildCall(build)>>)
    ELSE IF cred.err # NoErr
         THEN PresignResult(NilInfo, cred.err, <<BuildCall(build)>> \o cred.log)
    ELSE IF sign = "error"
         THEN PresignResult(NilInfo, ErrSign,
                            <<BuildCall(build)>> \o cred.log \o <<signCall>>)
    ELSE PresignResult(PresignedInfo(signCall, filePath, header), NoErr,
                       <<BuildCall(build)>> \o cred.log \o <<signCall>>)

(***************************************************************************)
(* The upload facade as a state machine, over a registry set up by         *)
(* RegisterScene and AllowContentType.                                     *)
(***************************************************************************)
DocsScene ==
    [SceneType |-> 1, Path |-> <<"docs">>,
     Extensions |-> << <<"pdf">>, <<"txt">> >>, Attachments |-> << <<"txt">> >>]

ImagesScene ==
    [SceneType |-> 2, Path |-> <<"/", "img">>,
     Extensions |-> << <<"pdf">> >>, Attachments |-> <<>>]

PresignSceneArgs == {DocsScene, ImagesScene}

PresignContentTypeArgs ==
    { << <<"pdf">>, ApplicationPdf >>, << <<"txt">>, TextPlain >> }

PresignFilenames == { <<"a", ".", "pdf">>, <<"a", ".", "txt">>, <<"a", ".", "exe">> }

Durations == 0..MaxExpired

CallGetUploadPresignedInfo(sceneType, dispositionType, filename, expired, paths, uuid, nanos, sign) ==
    /\ last' = [op |-> "GetUploadPresignedInfo", sceneType |-> sceneType,
                dispositionType |-> dispositionType, filename |-> filename,
                expired |-> expired, paths |-> paths,
                ret |-> GetUploadPresignedInfo(scenes, contentTypes, sceneType,
                                               dispositionType, filename, expired,
                                               paths, uuid, nanos, sign)]
    /\ UNCHANGED <<scenes, contentTypes>>

CallGetTmpUploadPresignedInfo(sceneType, dispositionType, filename, expired, paths, uuid, nanos, sts, sign) ==
    /\ last' = [op |-> "GetTmpUploadPresignedInfo", sceneType |-> sceneType,
                dispositionType |-> dispositionType, filename |-> filename,
                expired |-> expired, paths |-> paths,
                ret |-> GetTmpUploadPresignedInfo(scenes, contentTypes, sceneType,
                                                  dispositionType, filename, expired,
                                                  paths, uuid, nanos, sts, sign)]
    /\ UNCHANGED <<scenes, contentTypes>>

CallCosGo_GetUploadPresignedInfo(sceneType, filename, expired, paths, uuid, nanos, sts, sign) ==
    /\ last' = [op |-> "CosGo_GetUploadPresignedInfo", sceneType |-> sceneType,
                filename |-> filename, expired |-> expired, paths |-> paths,
                ret |-> CosGo_GetUploadPresignedInfo(scenes, contentTypes, sceneType,
                                                     filename, expired, paths, uuid,
                                                     nanos, sts, sign)]
    /\ UNCHANGED <<scenes, contentTypes>>

NextPresign ==
    \/ \E scene \in PresignSceneArgs : RegisterScene(scene)
    \/ \E a \in PresignContentTypeArgs : AllowContentType(a[1], a[2])
    \/ \E sceneType \in SceneTypes, dispositionType \in DispositionTypes,
          filename \in PresignFilenames, expired \in Durations, nanos \in Nanos,
          sign \in SignOutcomes :
          CallGetUploadPresignedInfo(sceneType, dispositionType, filename, expired,
                                     <<>>, "u1", nanos, sign)
    \/ \E sceneType \in SceneTypes, dispositionType \in DispositionTypes,
          filename \in PresignFilenames, expired \in Durations, nanos \in Nanos,
          sts \in StsOutcomes, sign \in SignOutcomes :
          CallGetTmpUploadPresignedInfo(sceneType, dispositionType, filename,
                                        expired, <<>>, "u1", nanos, sts, sign)
    \/ \E sceneType \in SceneTypes, filename \in PresignFilenames,
          expired \in Durations, nanos \in Nanos, sts \in StsOutcomes,
          sign \in SignOutcomes :
          CallCosGo_GetUploadPresignedInfo(sceneType, filename, expired, <<>>, "u1",
                                           nanos, sts, sign)

SpecPresign == Init /\ [][NextPresign]_vars

(***************************************************************************)
(* Client.GetViewPresignedURL, Client.GetTmpViewPresignedURL               *)
(***************************************************************************)
ViewResult(url, err, log) == [url |-> url, err |-> err, log |-> log]

\* if param == nil { param = &url.Values{} }
ParamOrEmpty(param) == IF param = NilParam THEN EmptyMap ELSE param

GetViewPresignedURLNoEmptyCheck(filePath, param, expired, sign) ==
    LET signCall == GetPresignedURLCall("GET", TrimPrefixSlash(filePath), SecretID,
                                        SecretKey, expired, EmptyMap,
                                        ParamOrEmpty(param), sign)
    IN  IF sign = "error" THEN ViewResult(EmptyStr, ErrSign, <<signCall>>)
        ELSE ViewResult(PresignedURL(signCall), NoErr, <<signCall>>)

GetViewPresignedURL(filePath, param, expired, sign) ==
    LET signCall == GetPresignedURLCall("GET", TrimPrefixSlash(filePath), SecretID,
                                        SecretKey, expired, EmptyMap,
                                        ParamOrEmpty(param), sign)
    IN  IF filePath = EmptyStr THEN ViewResult(EmptyStr, ErrEmptyPath, <<>>)
        ELSE IF sign = "error" THEN ViewResult(EmptyStr, ErrSign, <<signCall>>)
        ELSE ViewResult(PresignedURL(signCall), NoErr, <<signCall>>)

\* signedFor is the validity handed to the signer
TmpViewPresignedURL(filePath, param, expired, signedFor, sts, sign) ==
    LET trimmed == TrimPrefixSlash(filePath)
        cred == GetTmpViewCredentials(<<trimmed>>, expired, sts)
        query == ValuesSet(ParamOrEmpty(param), "x-cos-security-token",
                           cred.credentials.SessionToken)
        signCall == GetPresignedURLCall("GET", trimmed, cred.credentials.TmpSecretID,
                                        cred.credentials.TmpSecretKey, signedFor,
                                        EmptyMap, query, sign)
    IN  IF filePath = EmptyStr THEN ViewResult(EmptyStr, ErrEmptyPath, <<>>)
        ELSE IF cred.err # NoErr THEN ViewResult(EmptyStr, cred.err, cred.log)
        ELSE IF sign = "error"
             THEN ViewResult(EmptyStr, ErrSign, cred.log \o <<signCall>>)
        ELSE ViewResult(PresignedURL(signCall), NoErr, cred.log \o <<signCall>>)

GetTmpViewPresignedURL(filePath, param, expired, sts, sign) ==
    TmpViewPresignedURL(filePath, param, expired, expired, sts, sign)

\* cos.go: the GET URL is signed for time.Hour
CosGo_GetViewPresignedURL(filePath, param, expired, sts, sign) ==
    TmpViewPresignedURL(filePath, param, expired, Hour, sts, sign)

(***************************************************************************)
(* The view facade as a state machine.                                     *)
(***************************************************************************)
ViewPaths ==
    { EmptyStr, <<"/">>, <<"/", "docs", "/", "a", ".", "pdf">>,
      <<"docs", "/", "/", "a", "/">>, <<"docs", "/", ".", ".", "/", "b">>,
      <<".", ".">> }

ParamArgs == { NilParam, "response-content-type" :> <<ApplicationPdf>> }

CallGetViewPresignedURL(filePath, param, expired, sign) ==
    /\ last' = [op |-> "GetViewPresignedURL", filePath |-> filePath, param |-> param,
                expired |-> expired,
                ret |-> GetViewPresignedURL(filePath, param, expired, sign)]
    /\ UNCHANGED <<scenes, contentTypes>>

CallGetTmpViewPresignedURL(filePath, param, expired, sts, sign) ==
    /\ last' = [op |-> "GetTmpViewPresignedURL", filePath |-> filePath,
                param |-> param, expired |-> expired,
                ret |-> GetTmpViewPresignedURL(filePath, param, expired, sts, sign)]
    /\ UNCHANGED <<scenes, contentTypes>>

CallCosGo_GetViewPresignedURL(filePath, param, expired, sts, sign) ==
    /\ last' = [op |-> "CosGo_GetViewPresignedURL", filePath |-> filePath,
                param |-> param, expired |-> expired,
                ret |-> CosGo_GetViewPresignedURL(filePath, param, expired, sts, sign)]
    /\ UNCHANGED <<scenes, contentTypes>>

NextView ==
    \/ \E filePath \in ViewPaths, param \in ParamArgs, expired \in Durations,
          sign \in SignOutcomes :
          CallGetViewPresignedURL(filePath, param, expired, sign)
    \/ \E filePath \in ViewPaths, param \in ParamArgs, expired \in Durations,
          sts \in StsOutcomes, sign \in SignOutcomes :
          CallGetTmpViewPresignedURL(filePath, param, expired, sts, sign)
    \/ \E filePath \in ViewPaths, param \in ParamArgs, expired \in Durations,
          sts \in StsOutcomes, sign \in SignOutcomes :
          CallCosGo_GetViewPresignedURL(filePath, param, expired, sts, sign)

SpecView == Init /\ [][NextView]_vars

(***************************************************************************)
(* The two upload modes side by side: one caller asks the long-lived       *)
(* client and the temporary-credential client for the same upload, against *)
(* the same registry and with the same unique token and clock value.       *)
(***************************************************************************)
CallBothUploadModes(sceneType, dispositionType, filename, expired, paths, uuid, nanos, sts, signLong, signTmp) ==
    /\ last' = [op |-> "BothUploadModes", sceneType |-> sceneType,
                dispositionType |-> dispositionType, filename |-> filename,
                expired |-> expired, paths |-> paths,
                long |-> GetUploadPresignedInfo(scenes, contentTypes, sceneType,
                                                dispositionType, filename, expired,
                                                paths, uuid, nanos, signLong),
                tmp |-> GetTmpUploadPresignedInfo(scenes, contentTypes, sceneType,
                                                  dispositionType, filename, expired,
                                                  paths, uuid, nanos, sts, signTmp)]
    /\ UNCHANGED <<scenes, contentTypes>>

NextModes ==
    \/ \E scene \in PresignSceneArgs : RegisterScene(scene)
    \/ \E a \in PresignContentTypeArgs : AllowContentType(a[1], a[2])
    \/ \E sceneType \in SceneTypes, dispositionType \in DispositionTypes,
          filename \in PresignFilenames, expired \in Durations, nanos \in Nanos,
          sts \in StsOutcomes, signLong \in SignOutcomes, signTmp \in SignOutcomes :
          CallBothUploadModes(sceneType, dispositionType, filename, expired, <<>>,
                              "u1", nanos, sts, signLong, signTmp)

SpecModes == Init /\ [][NextModes]_vars

(***************************************************************************)
(* The path builder over caller-supplied extra path segments.              *)
(***************************************************************************)
MaxSegments == 1

SegmentArgs == { EmptyStr, <<"x">>, <<"/", "x">>, <<".">>, <<".", ".">> }

\* every short list of segments, and longer ones that climb
SegmentLists ==
    UNION { [1..n -> SegmentArgs] : n \in 0..MaxSegments }
    \cup { << <<"x">>, <<".", ".">> >>, << <<".", ".">>, <<"x">> >>,
           << <<".", ".">>, <<".", ".">> >> }

NextSegments ==
    \/ \E scene \in PresignSceneArgs : RegisterScene(scene)
    \/ \E a \in PresignContentTypeArgs : AllowContentType(a[1], a[2])
    \/ \E sceneType \in SceneTypes, filename \in PresignFilenames,
          paths \in SegmentLists, nanos \in Nanos :
          CallBuildUploadFileInfo(sceneType, filename, paths, "u1", nanos)

SpecSegments == Init /\ [][NextSegments]_vars

(***************************************************************************)
(* Client.PutFromObject, Client.PutFromFile                                *)
(***************************************************************************)
PutOutcomes == {"error", "ok"}

ErrPut == "ErrPut"

\* cos.ObjectPutHeaderOptions: a field left unset is the empty string
ObjectPutHeaderOptions(attachment, dispositionType, filename, contentType) ==
    IF attachment \/ dispositionType = DispositionTypeAttachment
    THEN [ContentDisposition |-> ContentDisposition(filename),
          ContentType |-> contentType]
    ELSE [ContentDisposition |-> EmptyStr, ContentType |-> EmptyStr]

\* c.client.Object.Put(ctx, name, object, opts)
PutCall(name, opts, outcome) ==
    [call |-> "Put", name |-> name, opts |-> opts, outcome |-> outcome]

\* c.client.Object.PutFromFile(ctx, name, filePath, opts)
PutFromFileCall(name, filePath, opts, outcome) ==
    [call |-> "PutFromFile", name |-> name, filePath |-> filePath, opts |-> opts,
     outcome |-> outcome]

PutResult(filePath, err, log) == [filePath |-> filePath, err |-> err, log |-> log]

\* the path without its trailing slashes
RECURSIVE StripTrailingSlashes(_)
StripTrailingSlashes(path) ==
    IF path # EmptyStr /\ path[Len(path)] = "/"
    THEN StripTrailingSlashes(SubSeq(path, 1, Len(path) - 1))
    ELSE path

\* the characters after the last "/" of the path
RECURSIVE AfterLastSlash(_, _)
AfterLastSlash(path, i) ==
    IF i = 0 THEN path
    ELSE IF path[i] = "/" THEN SubSeq(path, i + 1, Len(path))
    ELSE AfterLastSlash(path, i - 1)

\* filepath.Base
Base(path) ==
    IF path = EmptyStr THEN <<".">>
    ELSE LET stripped == StripTrailingSlashes(path)
             last_elem == AfterLastSlash(stripped, Len(stripped))
         IN  IF last_elem = EmptyStr THEN <<"/">> ELSE last_elem

PutFromObject(sc, cts, sceneType, dispositionType, filename, paths, uuid, nanos, put) ==
    LET build == BuildUploadFileInfo(sc, cts, sceneType, filename, paths, uuid, nanos)
        opts == ObjectPutHeaderOptions(build.attachment, dispositionType, filename,
                                       build.contentType)
        putCall == PutCall(build.filePath, opts, put)
    IN
    IF build.err # NoErr THEN PutResult(EmptyStr, build.err, <<BuildCall(build)>>)
    ELSE IF put = "error"
         THEN PutResult(EmptyStr, ErrPut, <<BuildCall(build), putCall>>)
    ELSE PutResult(build.filePath, NoErr, <<BuildCall(build), putCall>>)

PutFromFile(sc, cts, sceneType, dispositionType, filePath, paths, uuid, nanos, put) ==
    LET filename == Base(filePath)
        build == BuildUploadFileInfo(sc, cts, sceneType, filename, paths, uuid, nanos)
        opts == ObjectPutHeaderOptions(build.attachment, dispositionType, filename,
                                       build.contentType)
        putCall == PutFromFileCall(build.filePath, filePath, opts, put)
    IN
    IF build.err # NoErr THEN PutResult(EmptyStr, build.err, <<BuildCall(build)>>)
    ELSE IF put = "error"
         THEN PutResult(EmptyStr, ErrPut, <<BuildCall(build), putCall>>)
    ELSE PutResult(build.filePath, NoErr, <<BuildCall(build), putCall>>)

(***************************************************************************)
(* Direct uploads as a state machine.                                      *)
(***************************************************************************)
LocalFiles ==
    { EmptyStr, <<"/", "tmp", "/", "a", ".", "pdf">>, <<"a", ".", "txt">>,
      <<"tmp", "/", "a", ".", "txt", "/">>, <<"/", "tmp", "/", "a", ".", "exe">> }

CallPutFromObject(sceneType, dispositionType, filename, paths, uuid, nanos, put) ==
    /\ last' = [op |-> "PutFromObject", sceneType |-> sceneType,
                dispositionType |-> dispositionType, filename |-> filename,
                paths |-> paths,
                ret |-> PutFromObject(scenes, contentTypes, sceneType,
                                      dispositionType, filename, paths, uuid, nanos,
                                      put)]
    /\ UNCHANGED <<scenes, contentTypes>>

CallPutFromFile(sceneType, dispositionType, filePath, paths, uuid, nanos, put) ==
    /\ last' = [op |-> "PutFromFile", sceneType |-> sceneType,
                dispositionType |-> dispositionType, filePath |-> filePath,
                paths |-> paths,
                ret |-> PutFromFile(scenes, contentTypes, sceneType, dispositionType,
                                    filePath, paths, uuid, nanos, put)]
    /\ UNCHANGED <<scenes, contentTypes>>

NextPut ==
    \/ \E scene \in PresignSceneArgs : RegisterScene(scene)
    \/ \E a \in PresignContentTypeArgs : AllowContentType(a[1], a[2])
    \/ \E sceneType \in SceneTypes, dispositionType \in DispositionTypes,
          filename \in PresignFilenames, nanos \in Nanos, put \in PutOutcomes :
          CallPutFromObject(sceneType, dispositionType, filename, <<>>, "u1", nanos,
                            put)
    \/ \E sceneType \in SceneTypes, dispositionType \in DispositionTypes,
          filePath \in LocalFiles, nanos \in Nanos, put \in PutOutcomes :
          CallPutFromFile(sceneType, dispositionType, filePath, <<>>, "u1", nanos,
                          put)

SpecPut == Init /\ [][NextPut]_vars

(***************************************************************************)
(* cdn.go.  A CDN is immutable after NewCDN; the clock is the sequence of  *)
(* values successive time.Now().Unix() calls return.  The paths are made   *)
(* of "/", ".", "?" and "a"; no symbol holds ":", "%", "#" or a character  *)
(* that url.Parse or EscapedPath would escape, so url.Parse never fails.   *)
(***************************************************************************)
NewCDN(domain, key) == [domain |-> domain, key |-> key]

DigitChars == <<"0", "1", "2", "3", "4", "5", "6", "7", "8", "9">>

\* strconv.FormatInt(n, 10) for n >= 0
RECURSIVE FormatInt(_)
FormatInt(n) ==
    IF n < 10 THEN <<DigitChars[n + 1]>>
    ELSE FormatInt(n \div 10) \o <<DigitChars[(n % 10) + 1]>>

\* hex.EncodeToString(md5 of data): a digest stands for the bytes it was made of
Md5Hex(data) == <<"md5">> \o data

\* index of the first sym in str from i on, Len(str) + 1 if there is none
RECURSIVE IndexFrom(_, _, _)
IndexFrom(str, sym, i) ==
    IF i > Len(str) \/ str[i] = sym THEN i ELSE IndexFrom(str, sym, i + 1)

HasPrefix(str, prefix) ==
    Len(str) >= Len(prefix) /\ SubSeq(str, 1, Len(prefix)) = prefix

\* url.Parse(rawURL).EscapedPath(): the query is cut at the first "?", and a
\* leading "//" that is not "///" starts an authority that runs to the next "/"
UrlPath(rawURL) ==
    LET rest == SubSeq(rawURL, 1, IndexFrom(rawURL, "?", 1) - 1) IN
    IF HasPrefix(rest, <<"/", "/">>) /\ ~HasPrefix(rest, <<"/", "/", "/">>)
    THEN SubSeq(rest, IndexFrom(rest, "/", 3), Len(rest))
    ELSE rest

SignResult(values, reads) == [values |-> values, reads |-> reads]

\* a slip that reads the clock again for the t value
CDN_signTwoClockReads(c, filePath, clock) ==
    SignResult([sign |-> Md5Hex(c.key \o Join(<< <<"/">>, filePath >>)
                                      \o FormatInt(clock[1])),
                t |-> FormatInt(clock[2])], 2)

CDN_sign(c, filePath, clock) ==
    LET timestamp == FormatInt(clock[1])
        signature == Md5Hex(c.key \o Join(<< <<"/">>, filePath >>) \o timestamp)
    IN  SignResult([sign |-> signature, t |-> timestamp], 1)

CDN_GetAuthValues(c, filePath, clock) ==
    LET signed == CDN_sign(c, UrlPath(filePath), clock) IN
    [values |-> signed.values, err |-> NoErr, reads |-> signed.reads]

\* url.Values.Encode(): the keys in sorted order
ValuesEncode(values) == <<"sign=">> \o values.sign \o <<"&", "t=">> \o values.t

\* URL.String() of the domain with Path and RawQuery set: a path that does not
\* start with "/" gets one after the host
CDN_GetAuthURL(c, filePath, clock) ==
    LET signed == CDN_sign(c, UrlPath(filePath), clock)
        path == UrlPath(filePath)
        sep == IF path # EmptyStr /\ path[1] # "/" THEN <<"/">> ELSE <<>>
    IN  [values |-> signed.values,
         authURL |-> c.domain \o sep \o path \o <<"?">> \o ValuesEncode(signed.values),
         err |-> NoErr, reads |-> signed.reads]

(***************************************************************************)
(* The CDN signer over bounded paths and clocks.                           *)
(***************************************************************************)
MaxCdnPathLen == 2

CdnPathChars == {"/", ".", "?", "a"}

\* every short path, and longer ones of each shape a caller may pass
CdnPaths ==
    UNION { [1..n -> CdnPathChars] : n \in 0..MaxCdnPathLen }
    \cup { <<"a", "/", "b">>, <<"/", "a", "/", "b">>, <<"a", "/", ".", ".", "/", "b">>,
           <<"/", "/", "a", "/", "b">>, <<"/", "a", "?", "a">>, <<"a", "/", "b", "/">>,
           <<"a", "/", "/", "b">>, <<"/", "/", "/", "a">> }

CdnDomain == <<"https:", "/", "/", "cdn", ".", "example", ".", "com">>

CDNs == { NewCDN(CdnDomain, <<"key">>) }

UnixTimes == {1700000000, 1700000001}

\* two successive readings, the second one second later
Clocks == { <<t, t + 1>> : t \in UnixTimes }

CallCDN_GetAuthValues(c, filePath, clock) ==
    /\ last' = [op |-> "CDN.GetAuthValues", c |-> c, filePath |-> filePath,
                now |-> clock[1], ret |-> CDN_GetAuthValues(c, filePath, clock)]
    /\ UNCHANGED <<scenes, contentTypes>>

CallCDN_GetAuthURL(c, filePath, clock) ==
    /\ last' = [op |-> "CDN.GetAuthURL", c |-> c, filePath |-> filePath,
                now |-> clock[1], ret |-> CDN_GetAuthURL(c, filePath, clock)]
    /\ UNCHANGED <<scenes, contentTypes>>

NextCDN ==
    \/ \E c \in CDNs, filePath \in CdnPaths, clock \in Clocks :
           CallCDN_GetAuthValues(c, filePath, clock)
    \/ \E c \in CDNs, filePath \in CdnPaths, clock \in Clocks :
           CallCDN_GetAuthURL(c, filePath, clock)

SpecCDN == Init /\ [][NextCDN]_vars

(***************************************************************************)
(* C1 .. C3, C5: the path builder and the scene registry (Spec)            *)
(***************************************************************************)
Range(seq) == { seq[i] : i \in 1..Len(seq) }

\* the characters after the last "." of the last path element, if it has one
HasExtension(filename) ==
    \E i \in 1..Len(filename) :
        filename[i] = "." /\ \A j \in (i + 1)..Len(filename) : filename[j] # "/"

ExtensionOf(filename) ==
    LET i == CHOOSE k \in 1..Len(filename) :
                 /\ filename[k] = "."
                 /\ \A j \in (k + 1)..Len(filename) : filename[j] \notin {"/", "."}
    IN  SubSeq(filename, i + 1, Len(filename))

LowerSymbol(sym) == IF sym = "PDF" THEN "pdf" ELSE sym

ToLower(str) == [i \in 1..Len(str) |-> LowerSymbol(str[i])]

BuildCalled == last.op = "BuildUploadFileInfo"

BuildSucceeds(sceneType, filename) ==
    BuildUploadFileInfo(scenes, contentTypes, sceneType, filename, <<>>,
                        "u1", "1700000000000000000").err = NoErr

\* C1 (as claimed): for a registered scene and a filename whose extension has a
\* content type, BuildUploadFileInfo succeeds iff the lower-cased extension is in
\* the scene's Extensions, and filenames that differ only in the letter case of
\* the extension get the same verdict.
C1_AcceptsAllowedExtensionsIgnoringCase ==
    (/\ BuildCalled
     /\ last.sceneType \in DOMAIN scenes
     /\ HasExtension(last.filename)
     /\ ExtensionOf(last.filename) \in DOMAIN contentTypes)
    => /\ (last.ret.err = NoErr) <=>
              (ToLower(ExtensionOf(last.filename))
                   \in Range(scenes[last.sceneType].Extensions))
       /\ \A other \in Filenames :
              (/\ ToLower(other) = ToLower(last.filename)
               /\ ExtensionOf(other) \in DOMAIN contentTypes)
              => (BuildSucceeds(last.sceneType, other) <=> (last.ret.err = NoErr))

\* the first failure condition that applies, in the claimed order
ExpectedBuildErr(sceneType, filename) ==
    IF filename = EmptyStr THEN ErrEmptyFilename
    ELSE IF ~HasExtension(filename) THEN ErrEmptyFileExt
    ELSE IF sceneType \notin DOMAIN scenes THEN ErrSceneNotFound
    ELSE IF ExtensionOf(filename) \notin Range(scenes[sceneType].Extensions)
         THEN ErrUnsupportedExt
    ELSE IF ExtensionOf(filename) \notin DOMAIN contentTypes
         THEN ErrUnknownContentType
    ELSE NoErr

\* C2: BuildUploadFileInfo reports the first failure in the order empty filename,
\* missing extension, unregistered scene, extension not allowed, no content type;
\* on every failure the returned path and content type are empty.
C2_FailureOrder ==
    BuildCalled
    => /\ last.ret.err = ExpectedBuildErr(last.sceneType, last.filename)
       /\ last.ret.err # NoErr
              => last.ret.filePath = EmptyStr /\ last.ret.contentType = EmptyStr

\* an allowed extension with no content type fails with UnknownContentType
C2_Witness ==
    /\ BuildCalled
    /\ last.ret.err = ErrUnknownContentType
    /\ last.sceneType \in DOMAIN scenes
    /\ ExtensionOf(last.filename) \in Range(scenes[last.sceneType].Extensions)

\* C3: when BuildUploadFileInfo succeeds, the attachment flag is true iff the
\* extension is in the scene's Attachments.
C3_AttachmentFlag ==
    (BuildCalled /\ last.ret.err = NoErr)
    => (last.ret.attachment <=>
            ExtensionOf(last.filename) \in Range(scenes[last.sceneType].Attachments))

\* a success with the flag set, in a registry where another scene allows the
\* same extension without forcing attachment
C3_Witness ==
    /\ BuildCalled
    /\ last.ret.err = NoErr
    /\ last.ret.attachment
    /\ \E id \in DOMAIN scenes :
           /\ ExtensionOf(last.filename) \in Range(scenes[id].Extensions)
           /\ ExtensionOf(last.filename) \notin Range(scenes[id].Attachments)

InvalidScene(scene) ==
    scene = NilScene \/ scene.Path = EmptyStr \/ scene.Extensions = <<>>

\* C5: every scene in the registry has a non-empty path and a non-empty
\* extension list; an invalid RegisterScene call leaves the registry as it was,
\* a valid one makes lookup of its identifier return it and changes no other.
C5_RegistryInvariant ==
    /\ [](\A id \in DOMAIN scenes :
              /\ scenes[id].Path # EmptyStr
              /\ scenes[id].Extensions # <<>>
              /\ scenes[id].SceneType = id)
    /\ [][last'.op = "RegisterScene"
          => IF InvalidScene(last'.scene)
             THEN scenes' = scenes
             ELSE /\ DOMAIN scenes' = DOMAIN scenes \cup {last'.scene.SceneType}
                  /\ scenes'[last'.scene.SceneType] = last'.scene
                  /\ \A id \in DOMAIN scenes :
                         id # last'.scene.SceneType => scenes'[id] = scenes[id]]_vars

\* an invalid scene was offered for an identifier that is registered, and a
\* valid scene has replaced another one somewhere
C5_Witness ==
    /\ last.op = "RegisterScene"
    /\ last.scene # NilScene
    /\ InvalidScene(last.scene)
    /\ last.scene.SceneType \in DOMAIN scenes
    /\ scenes[last.scene.SceneType].Extensions # last.scene.Extensions

(***************************************************************************)
(* C4: TrimPrefixSlash (SpecPath)                                          *)
(***************************************************************************)
\* the elements of a path: the runs between slashes
RECURSIVE Elements(_)
Elements(path) ==
    LET e == ElemEnd(path, 1) IN
    IF e > Len(path) THEN <<path>>
    ELSE <<SubSeq(path, 1, e - 1)>> \o Elements(SubSeq(path, e + 1, Len(path)))

\* C4 (as claimed): TrimPrefixSlash is idempotent on every path, and its result
\* has no leading slash, no "." or ".." element, no duplicate and no trailing
\* slash.
C4_TrimPrefixSlashIdempotent ==
    last.op = "TrimPrefixSlash"
    => /\ TrimPrefixSlash(last.ret) = last.ret
       /\ last.ret # EmptyStr =>
              /\ last.ret[1] # "/"
              /\ last.ret[Len(last.ret)] # "/"
              /\ \A i \in 1..(Len(last.ret) - 1) :
                     ~(last.ret[i] = "/" /\ last.ret[i + 1] = "/")
       /\ \A i \in 1..Len(Elements(last.ret)) :
              Elements(last.ret)[i] \notin {<<".">>, <<".", ".">>}

(***************************************************************************)
(* C6, C7: the credential policy statements (SpecPolicy)                   *)
(***************************************************************************)
UploadPolicyCalled == last.op = "GetUploadCredentialPolicyStatement"

ViewPolicyCalled == last.op = "GetViewCredentialPolicyStatement"

\* C6: for non-empty resources and content types the upload policy is exactly one
\* "allow" statement whose i-th resource is the base identifier path-joined with
\* the i-th input resource.
C6_UploadResourcesOneToOne ==
    (UploadPolicyCalled /\ last.resources # <<>> /\ last.contentTypes # <<>>)
    => /\ last.ret.err = NoErr
       /\ Len(last.ret.statements) = 1
       /\ last.ret.statements[1].Effect = "allow"
       /\ Len(last.ret.statements[1].Resource) = Len(last.resources)
       /\ \A i \in 1..Len(last.resources) :
              last.ret.statements[1].Resource[i]
                  = Join(<<PolicyBase, last.resources[i]>>)

\* several resources, one of them empty and two of them equal
C6_Witness ==
    /\ UploadPolicyCalled
    /\ last.ret.err = NoErr
    /\ Len(last.resources) >= 3
    /\ EmptyStr \in Range(last.resources)
    /\ \E i, j \in 1..Len(last.resources) :
           i # j /\ last.resources[i] = last.resources[j]

\* C7: a view statement has no condition and exactly the GetObject action; an
\* upload statement has the case-insensitive content-type condition over the
\* caller's content types and no GetObject action.
C7_ConditionAndActions ==
    /\ ViewPolicyCalled =>
           \A i \in 1..Len(last.ret.statements) :
               /\ DOMAIN last.ret.statements[i].Condition = {}
               /\ last.ret.statements[i].Action = <<"name/cos:GetObject">>
    /\ UploadPolicyCalled =>
           \A i \in 1..Len(last.ret.statements) :
               /\ DOMAIN last.ret.statements[i].Condition = {"string_equal_ignore_case"}
               /\ DOMAIN last.ret.statements[i].Condition["string_equal_ignore_case"]
                      = {"cos:content-type"}
               /\ last.ret.statements[i].Condition["string_equal_ignore_case"]
                      ["cos:content-type"] = last.contentTypes
               /\ "name/cos:GetObject" \notin Range(last.ret.statements[i].Action)

\* an upload statement was returned for two content types
C7_Witness ==
    /\ UploadPolicyCalled
    /\ Len(last.ret.statements) = 1
    /\ Len(last.contentTypes) = 2

(***************************************************************************)
(* C8, C9: the upload facade (SpecPresign)                                 *)
(***************************************************************************)
UploadPresignCalled ==
    last.op \in {"GetUploadPresignedInfo", "GetTmpUploadPresignedInfo",
                 "CosGo_GetUploadPresignedInfo"}

\* the attachment flag BuildUploadFileInfo resolved, if it resolves one
ResolvedAttachment ==
    /\ "attachment" \in DOMAIN last.ret.log[1].ret
    /\ last.ret.log[1].ret.attachment

\* the caller passed the attachment disposition type, if the call takes one
RequestedAttachment ==
    /\ "dispositionType" \in DOMAIN last
    /\ last.dispositionType = DispositionTypeAttachment

SignedCall == last.ret.log[Len(last.ret.log)]

HeaderRule ==
    /\ "Content-Type" \in DOMAIN SignedCall.header
    /\ SignedCall.header["Content-Type"] = <<last.ret.log[1].ret.contentType>>
    /\ ("Content-Disposition" \in DOMAIN SignedCall.header)
           <=> (ResolvedAttachment \/ RequestedAttachment)
    /\ "Content-Disposition" \in DOMAIN SignedCall.header
           => SignedCall.header["Content-Disposition"]
                  = << <<"attachment; filename=">> \o last.filename >>
    /\ DOMAIN last.ret.info.Header = DOMAIN SignedCall.header
    /\ \A key \in DOMAIN SignedCall.header :
           SignedCall.header[key] = <<last.ret.info.Header[key]>>

\* C8 (as claimed): every successful upload-presign call signs and returns a
\* header set with Content-Type equal to the resolved content type and with
\* Content-Disposition 'attachment; filename=<filename>' iff the attachment flag
\* is true or the caller passed the attachment disposition type; the returned
\* Header map is the signed header set.
C8_UploadHeaders ==
    (UploadPresignCalled /\ last.ret.err = NoErr) => HeaderRule

\* the same rule for the two functions that take a disposition type
C8_UploadHeadersWithDispositionType ==
    (/\ last.op \in {"GetUploadPresignedInfo", "GetTmpUploadPresignedInfo"}
     /\ last.ret.err = NoErr) => HeaderRule

StageOrder == <<"BuildUploadFileInfo", "GetCredential", "GetPresignedURL">>

\* the stages of one GetTmpUploadPresignedInfo call, without the ttl of the
\* credential request
TmpUploadStages ==
    LET log == last.ret.log IN
    /\ Len(log) \in 1..3
    /\ \A i \in 1..Len(log) : log[i].call = StageOrder[i]
    /\ log[1].ret.err # NoErr => Len(log) = 1 /\ last.ret.err = log[1].ret.err
    /\ log[1].ret.err = NoErr => Len(log) >= 2
    /\ Len(log) >= 2 =>
           /\ Len(log[2].Statement) = 1
           /\ log[2].Statement[1].Resource
                  = <<Join(<<PolicyBase, log[1].ret.filePath>>)>>
           /\ log[2].Statement[1].Condition["string_equal_ignore_case"]
                  ["cos:content-type"] = <<log[1].ret.contentType>>
           /\ log[2].outcome = "error" => Len(log) = 2 /\ last.ret.err = ErrSts
           /\ log[2].outcome = "nil"
                  => Len(log) = 2 /\ last.ret.err = ErrNilCredentials
           /\ log[2].outcome = "ok" => Len(log) = 3
    /\ Len(log) = 3 =>
           /\ log[3].method = "PUT"
           /\ log[3].name = log[1].ret.filePath
           /\ log[3].expired = last.expired
           /\ log[3].outcome = "error" => last.ret.err = ErrSign
           /\ log[3].outcome = "ok"
                  => last.ret.err = NoErr /\ last.ret.info.FilePath = log[3].name
    /\ last.ret.err = NoErr => Len(log) = 3

\* C9 (as claimed): GetTmpUploadPresignedInfo runs path build, credential
\* request and URL signing in that order, each at most once; a failing stage
\* ends the call with its error; the credential is requested for the resolved
\* path, the resolved content type and the caller's ttl; FilePath is the signed
\* path.
C9_TmpUploadStagesExactTtl ==
    last.op = "GetTmpUploadPresignedInfo"
    => /\ TmpUploadStages
       /\ Len(last.ret.log) >= 2
              => last.ret.log[2].DurationSeconds * TicksPerSecond = last.expired

\* C9 (amended): the same, the credential being requested for the caller's ttl
\* in whole seconds, the fraction of a second dropped.
C9_TmpUploadStages ==
    last.op = "GetTmpUploadPresignedInfo"
    => /\ TmpUploadStages
       /\ Len(last.ret.log) >= 2 =>
              /\ last.ret.log[2].DurationSeconds * TicksPerSecond <= last.expired
              /\ last.expired < (last.ret.log[2].DurationSeconds + 1) * TicksPerSecond

\* the credential stage answered with an empty payload for a ttl that is not a
\* whole number of seconds
C9_Witness ==
    /\ last.op = "GetTmpUploadPresignedInfo"
    /\ Len(last.ret.log) = 2
    /\ last.ret.log[2].outcome = "nil"
    /\ last.ret.log[2].DurationSeconds * TicksPerSecond # last.expired

(***************************************************************************)
(* C10: the view facade (SpecView)                                         *)
(***************************************************************************)
\* C10: GetViewPresignedURL and GetTmpViewPresignedURL refuse an empty path
\* before any collaborator is called; otherwise the signer, and the single
\* resource of the view policy, get the normalized path.
C10_ViewPath ==
    last.op \in {"GetViewPresignedURL", "GetTmpViewPresignedURL"}
    => /\ last.filePath = EmptyStr
              => last.ret.err = ErrEmptyPath /\ last.ret.log = <<>>
       /\ last.filePath # EmptyStr
              => /\ last.ret.log # <<>>
                 /\ \A i \in 1..Len(last.ret.log) :
                        /\ last.ret.log[i].call = "GetPresignedURL"
                               => last.ret.log[i].name = TrimPrefixSlash(last.filePath)
                        /\ last.ret.log[i].call = "GetCredential"
                               => /\ Len(last.ret.log[i].Statement) = 1
                                  /\ last.ret.log[i].Statement[1].Resource
                                         = <<Join(<<PolicyBase,
                                                    TrimPrefixSlash(last.filePath)>>)>>

\* a rooted path was signed with a temporary credential
C10_Witness ==
    /\ last.op = "GetTmpViewPresignedURL"
    /\ last.filePath # EmptyStr
    /\ last.filePath[1] = "/"
    /\ Len(last.ret.log) = 2
    /\ last.ret.log[2].name # EmptyStr
    /\ last.ret.err = NoErr

\* the empty path was refused
C10_WitnessEmptyPath ==
    /\ last.op \in {"GetViewPresignedURL", "GetTmpViewPresignedURL"}
    /\ last.filePath = EmptyStr

(***************************************************************************)
(* C11: the CDN signer (SpecCDN)                                           *)
(***************************************************************************)
CdnCalled == last.op \in {"CDN.GetAuthValues", "CDN.GetAuthURL"}

\* the t value is the clock reading, read once
OneClockRead ==
    /\ last.ret.reads = 1
    /\ last.ret.values.t = FormatInt(last.now)
    /\ last.op = "CDN.GetAuthURL"
           => \E i \in 1..Len(last.ret.authURL) :
                  SubSeq(last.ret.authURL, i, Len(last.ret.authURL))
                      = <<"?", "sign=">> \o last.ret.values.sign
                            \o <<"&", "t=">> \o FormatInt(last.now)

PlainRelativePath(path) ==
    /\ path # EmptyStr
    /\ "?" \notin Range(path)
    /\ \A i \in 1..Len(Elements(path)) :
           Elements(path)[i] \notin {EmptyStr, <<".">>, <<".", ".">>}

\* the path with its query cut off
BeforeQuery(path) ==
    IF "?" \in Range(path)
    THEN SubSeq(path, 1, (CHOOSE i \in 1..Len(path) :
                              path[i] = "?" /\ "?" \notin Range(SubSeq(path, 1, i - 1))) - 1)
    ELSE path

BothModesCalled == last.op = "BothUploadModes"

\* the temporary credential was issued, or was never asked for
IssuanceSucceeded ==
    \A i \in 1..Len(last.tmp.log) :
        last.tmp.log[i].call = "GetCredential" => last.tmp.log[i].outcome = "ok"

SignCallOf(ret) == ret.log[Len(ret.log)]

BothSigned ==
    /\ SignCallOf(last.long).call = "GetPresignedURL"
    /\ SignCallOf(last.tmp).call = "GetPresignedURL"

\* C12: for the same registry, inputs, unique token and clock value, and a
\* temporary credential that is issued, the long-lived and the temporary mode
\* fail at path building together and with the same error; both reach the
\* signer or neither does, and they sign the same method, path, ttl and
\* headers; when both succeed they return the same FilePath and Header map;
\* the signed requests differ only in the key pair and in the security-token
\* query parameter.
C12_ModesEquivalent ==
    (BothModesCalled /\ IssuanceSucceeded)
    => /\ last.long.log[1] = last.tmp.log[1]
       /\ last.long.log[1].ret.err # NoErr
              => /\ last.long.err = last.long.log[1].ret.err
                 /\ last.tmp.err = last.long.err
                 /\ Len(last.long.log) = 1 /\ Len(last.tmp.log) = 1
       /\ last.long.log[1].ret.err = NoErr => BothSigned
       /\ BothSigned
              => /\ SignCallOf(last.long).method = SignCallOf(last.tmp).method
                 /\ SignCallOf(last.long).name = SignCallOf(last.tmp).name
                 /\ SignCallOf(last.long).expired = SignCallOf(last.tmp).expired
                 /\ SignCallOf(last.long).header = SignCallOf(last.tmp).header
                 /\ SignCallOf(last.long).ak = SecretID
                 /\ SignCallOf(last.long).sk = SecretKey
                 /\ SignCallOf(last.tmp).ak = TmpCredentials.TmpSecretID
                 /\ SignCallOf(last.tmp).sk = TmpCredentials.TmpSecretKey
                 /\ SignCallOf(last.long).query = EmptyMap
                 /\ SignCallOf(last.tmp).query
                        = [k \in {"x-cos-security-token"}
                               |-> <<TmpCredentials.SessionToken>>]
       /\ (last.long.err = NoErr /\ last.tmp.err = NoErr)
              => /\ last.long.info.FilePath = last.tmp.info.FilePath
                 /\ last.long.info.Header = last.tmp.info.Header

\* both modes succeeded for a file of an attachment extension, without the
\* caller asking for the attachment disposition
C12_Witness ==
    /\ BothModesCalled
    /\ last.long.err = NoErr /\ last.tmp.err = NoErr
    /\ last.dispositionType = DispositionTypeOther
    /\ "Content-Disposition" \in DOMAIN last.tmp.info.Header
    /\ last.long.info.FilePath = last.tmp.info.FilePath

\* path building failed in both modes
C12_WitnessBuildFails ==
    /\ BothModesCalled
    /\ last.long.err = ErrUnsupportedExt
    /\ last.tmp.err = ErrUnsupportedExt

(***************************************************************************)
(* C13: extra path segments (SpecSegments)                                 *)
(***************************************************************************)
BuiltPath == last.ret.filePath

\* the scene's path without its leading slash, followed by "/"
ScenePrefix == TrimPrefixSlash(scenes[last.sceneType].Path) \o <<"/">>

GeneratedName ==
    UniqueName(last.uuid, last.filename, last.nanos,
               TrimPrefix(Ext(last.filename), <<".">>))

HasSuffix(str, suffix) ==
    /\ Len(str) >= Len(suffix)
    /\ SubSeq(str, Len(str) - Len(suffix) + 1, Len(str)) = suffix

\* the part of C13 about the shape of the path: no leading slash, no ".."
\* element, and the generated unique name as the last element
C13_PathShape ==
    (BuildCalled /\ last.ret.err = NoErr)
    => /\ BuiltPath # EmptyStr
       /\ BuiltPath[1] # "/"
       /\ \A i \in 1..Len(Elements(BuiltPath)) :
              Elements(BuiltPath)[i] # <<".", ".">>
       /\ Elements(BuiltPath)[Len(Elements(BuiltPath))] = GeneratedName

\* C13 (as claimed): for every registered scene, accepted filename and list of
\* extra segments, the built path has no leading slash and no ".." element,
\* begins with the scene's normalized path prefix followed by "/", and ends
\* with the generated unique name.
C13_SegmentsStayInScene ==
    (BuildCalled /\ last.ret.err = NoErr)
    => /\ BuiltPath # EmptyStr
       /\ BuiltPath[1] # "/"
       /\ \A i \in 1..Len(Elements(BuiltPath)) :
              Elements(BuiltPath)[i] # <<".", ".">>
       /\ HasPrefix(BuiltPath, ScenePrefix)
       /\ HasSuffix(BuiltPath, GeneratedName)

(***************************************************************************)
(* C14: the validity of a view URL signed with a temporary credential      *)
(* (SpecView)                                                              *)
(***************************************************************************)
TmpViewCalled == last.op \in {"GetTmpViewPresignedURL", "CosGo_GetViewPresignedURL"}

\* the signer is handed the caller's expired, and the credential is asked for
\* the same duration in whole seconds
SignedForCallersTtl ==
    \A i \in 1..Len(last.ret.log) :
        /\ last.ret.log[i].call = "GetPresignedURL"
               => last.ret.log[i].expired = last.expired
        /\ last.ret.log[i].call = "GetCredential"
               => last.ret.log[i].DurationSeconds = DurationSeconds(last.expired)

\* C14 (as claimed): in every view-URL flow that uses a temporary credential,
\* the validity handed to the signer for the GET URL is the caller's expired,
\* the duration the temporary credential is requested for.
C14_ViewSignedForTtl == TmpViewCalled => SignedForCallersTtl

\* the same for the one flow that takes its validity from the caller
C14_TmpViewSignedForTtl ==
    last.op = "GetTmpViewPresignedURL" => SignedForCallersTtl

(***************************************************************************)
(* C15: direct uploads (SpecPut)                                           *)
(***************************************************************************)
PutCalled == last.op \in {"PutFromObject", "PutFromFile"}

\* the filename the upload is built for
PutFilename ==
    IF last.op = "PutFromFile" THEN Base(last.filePath) ELSE last.filename

PutBuild == last.ret.log[1].ret

\* the put the storage client was asked for
PutIssued == last.ret.log[Len(last.ret.log)]

NoPutOnBuildFailure ==
    PutBuild.err # NoErr
    => /\ Len(last.ret.log) = 1
       /\ last.ret.err = PutBuild.err
       /\ last.ret.filePath = EmptyStr

DispositionRule ==
    PutBuild.err = NoErr
    => /\ Len(last.ret.log) = 2
       /\ PutIssued.call \in {"Put", "PutFromFile"}
       /\ PutIssued.name = PutBuild.filePath
       /\ (PutIssued.opts.ContentDisposition # EmptyStr)
              <=> (PutBuild.attachment
                       \/ last.dispositionType = DispositionTypeAttachment)
       /\ PutIssued.opts.ContentDisposition # EmptyStr
              => PutIssued.opts.ContentDisposition
                     = <<"attachment; filename=">> \o PutFilename

\* C15 (as claimed): whenever path building succeeds the put carries the
\* resolved Content-Type, whatever the attachment flag and the disposition
\* type, and Content-Disposition 'attachment; filename=<filename>' iff the
\* attachment flag is true or the caller asked for the attachment disposition;
\* when path building fails no put is issued.
C15_PutHeaders ==
    PutCalled
    => /\ NoPutOnBuildFailure
       /\ DispositionRule
       /\ PutBuild.err = NoErr => PutIssued.opts.ContentType = PutBuild.contentType

\* what the direct uploads do: the put carries the resolved Content-Type
\* exactly when it carries Content-Disposition
C15_PutContentTypeWithDisposition ==
    PutCalled
    => /\ NoPutOnBuildFailure
       /\ DispositionRule
       /\ PutBuild.err = NoErr
              => PutIssued.opts.ContentType
                     = IF PutIssued.opts.ContentDisposition # EmptyStr
                       THEN PutBuild.contentType ELSE EmptyStr

====
